---------------------------- MODULE Spec2Model ----------------------------
(***************************************************************************)
(* Model of slurmy's generic backend (backends/base.py: Base.sync,         *)
(* Base.write_script, Base._add_singularity_command, Base._check_commands) *)
(* and of its progress printer (tools/printer.py: Printer).                *)
(*                                                                         *)
(* Python values are written as their repr in strings ("None", "''",       *)
(* "'a'"); a Python str that holds text is the sequence of its             *)
(* '\n'-separated segments, so "a\nb\n" is <<"a", "b", "">> and "a\nb" is  *)
(* <<"a", "b">>; an instance __dict__ is the sequence of its items in      *)
(* insertion order.                                                        *)
(***************************************************************************)
EXTENDS Naturals, Integers, Sequences, FiniteSets, TLC

VARIABLES
    \* ---- Base (backends/base.py)
    self_cls,     \* the backend's class
    self_dict,    \* the backend's __dict__ (items in insertion order)
    config,       \* the object handed to sync: [cls, dict]
    sync_result,  \* how the last sync call ended ("idle": no call since the last assignment)
    run_script,   \* self.run_script as write_script reads and writes it (a str, or None)
    files,        \* the filesystem: path -> content
    ws_result,    \* how the last write_script call ended
    ws_text,      \* the script text that call worked on (after the template-inlining step)
    ws_read,      \* whether that call read a file's contents into self.run_script
    ws_image,     \* whether that call was given a singularity image
    ws_calls,     \* number of write_script calls so far
    test_mode,    \* options.Main.test_mode
    commands,     \* self._commands
    available,    \* the commands `which` resolves
    cc_result,    \* how the last _check_commands call ended
    cc_entry,     \* test_mode when that call was entered
    cc_probed,    \* the commands that call probed, in order
    cc_prompts,   \* number of prompts that call issued
    cc_answer,    \* the answer to its prompt ("none" when there was no prompt)
    \* ---- Printer (tools/printer.py)
    jobs,         \* parent.jobs: the jobs in insertion order, each [status, type, tags]
    bar_mode,     \* Printer._bar_mode
    verbosity,    \* Printer._verbosity
    manual_mode,  \* Printer._manual_mode
    bars,         \* Printer._bars: bucket -> [n, total, closed] (the empty function before start)
    tags,         \* Printer._tags: the tags the printer tracks (set when the bars are set up)
    time,         \* Printer._time: "None", the clock reading of start(), or the elapsed
                  \* time stop() left there ("zero": 0.0, "elapsed": any other)
    phase,        \* "new" | "started" | "stopped"
    p_op,         \* the printer call or job-collection change that made this state
    p_raised,     \* the exception the last printer call ended with ("no": it returned)
    p_out,        \* what the last printer call did to the console and the clock, in order
    p_line,       \* the status lines the last printer call wrote, in order
    p_summary,    \* the summaries the last printer call printed, in order
    n_start       \* n_jobs of _setup_bars: len(parent.jobs) when start() set up the bars
                  \* (0 before, and in line mode)

syncVars == <<self_cls, self_dict, config, sync_result>>
scriptVars == <<run_script, files, ws_result, ws_text, ws_read, ws_image, ws_calls>>
commandVars == <<test_mode, commands, available, cc_result, cc_entry, cc_probed, cc_prompts, cc_answer>>
printerVars ==
    <<jobs, bar_mode, verbosity, manual_mode, bars, tags, time, phase, p_op, p_raised,
      p_out, p_line, p_summary, n_start>>
vars == <<syncVars, scriptVars, commandVars, printerVars>>

(***************************************************************************)
(* Backend kinds.  Base is the class of base.py; the scheduler backends    *)
(* extend it.                                                              *)
(***************************************************************************)
Classes == {"Base", "Slurm"}

\* isinstance(obj of class c, d): c is d or extends d (every backend extends Base)
IsInstance(c, d) == c = d \/ (c \in Classes /\ d = "Base")

\* config is None
NoneConfig == [cls |-> "NoneType", dict |-> <<>>]

PublicKeys == {"name", "run_script"}
PrivateKeys == {"_id"}
Keys == PublicKeys \cup PrivateKeys

\* key.startswith('_')
StartsWithUnderscore(k) == k \in PrivateKeys

FalsyValues == {"None", "''"}
Values == {"None", "''", "'a'", "'b'"}

\* bool(v)
Truthy(v) == v \notin FalsyValues

\* Python's `a or b`
PyOrNot(a, b) == IF ~Truthy(a) THEN "True" ELSE b
PyOr(a, b) == IF Truthy(a) THEN a ELSE b

\* key in self.__dict__
Contains(d, k) == \E i \in 1..Len(d) : d[i].key = k

IndexOf(d, k) == CHOOSE i \in 1..Len(d) : d[i].key = k

\* self.__dict__[key]
GetItem(d, k) == d[IndexOf(d, k)].val

\* self.__dict__[key] = val: an existing key keeps its place, a new one is appended
SetItemDict(d, k, v) ==
    IF Contains(d, k)
    THEN [d EXCEPT ![IndexOf(d, k)] = [key |-> k, val |-> v]]
    ELSE Append(d, [key |-> k, val |-> v])

\* Class-level defaults of Base: name, log, run_script, run_args are None
ClassDefault(k) == "None"

\* obj.<k> as attribute lookup sees it: the instance __dict__, then the class
Field(d, k) == IF Contains(d, k) THEN GetItem(d, k) ELSE ClassDefault(k)

(***************************************************************************)
(* The loop of sync over self.__dict__.keys(), from item i on.  The result *)
(* is the receiver's __dict__ when the loop ends and whether it ended in   *)
(* KeyError (config[key] with key missing from config.__dict__).           *)
(***************************************************************************)
RECURSIVE SyncLoop(_, _, _)
SyncLoop(d, cd, i) ==
    IF i > Len(d) THEN [dict |-> d, raised |-> FALSE]
    ELSE LET k == d[i].key IN
         IF StartsWithUnderscore(k) THEN SyncLoop(d, cd, i + 1)
         ELSE IF ~Truthy(d[i].val) /\ ~Contains(cd, k)
              THEN [dict |-> d, raised |-> TRUE]
              ELSE \* `or` short-circuits: config[key] is read only when self[key] is falsy
                   LET other == IF Contains(cd, k) THEN GetItem(cd, k) ELSE "None" IN
                   SyncLoop(SetItemDict(d, k, PyOr(d[i].val, other)), cd, i + 1)

\* Base.sync as a function of receiver and argument: [dict, result]
SyncCall(cls, d, cfg) ==
    IF cfg = NoneConfig THEN [dict |-> d, result |-> "none"]
    ELSE IF ~IsInstance(cfg.cls, cls) THEN [dict |-> d, result |-> "mismatch"]
    ELSE LET r == SyncLoop(d, cfg.dict, 1) IN
         [dict |-> r.dict, result |-> IF r.raised THEN "KeyError" ELSE "done"]


(***************************************************************************)
(* Inputs of the sync model.                                               *)
(***************************************************************************)
KeyOrder == <<"name", "run_script", "_id">>

\* What the caller assigns on the receiver, and what a config holds
AssignValues(k) == IF k \in PrivateKeys THEN {"None"} ELSE {"None", "''", "'a'"}
ConfigValues(k) == IF k \in PrivateKeys THEN {"'b'"} ELSE {"None", "''", "'b'"}

\* The __dict__ that assigning f[k] to each key k with f[k] # "absent" builds, in KeyOrder
DictOf(f) ==
    SelectSeq([i \in 1..Len(KeyOrder) |-> [key |-> KeyOrder[i], val |-> f[KeyOrder[i]]]],
              LAMBDA it : it.val # "absent")

ConfigDicts ==
    {DictOf(f) : f \in {g \in [Keys -> Values \cup {"absent"}] :
                          \A k \in Keys : g[k] \in ConfigValues(k) \cup {"absent"}}}

SyncConfigs == {NoneConfig} \cup {[cls |-> c, dict |-> d] : c \in Classes, d \in ConfigDicts}

InitSyncVars ==
    /\ self_cls \in Classes
    /\ self_dict = <<>>
    /\ config \in SyncConfigs
    /\ sync_result = "idle"

IdleSyncVars ==
    /\ self_cls = "Base"
    /\ self_dict = <<>>
    /\ config = NoneConfig
    /\ sync_result = "idle"

\* Base.__setitem__
SetItem(k, v) ==
    /\ self_dict' = SetItemDict(self_dict, k, v)
    /\ sync_result' = "idle"
    /\ UNCHANGED <<self_cls, config>>
    /\ UNCHANGED <<scriptVars, commandVars, printerVars>>

\* Base.sync(config)
Sync ==
    /\ LET r == SyncCall(self_cls, self_dict, config) IN
         /\ self_dict' = r.dict
         /\ sync_result' = r.result
    /\ UNCHANGED <<self_cls, config>>
    /\ UNCHANGED <<scriptVars, commandVars, printerVars>>

NextSync ==
    \/ \E k \in Keys : \E v \in AssignValues(k) : SetItem(k, v)
    \/ Sync

(***************************************************************************)
(* write_script and the guard injection.  Segments (lines without their    *)
(* '\n') are drawn from a small alphabet; what the code asks of a segment  *)
(* (strip, startswith, in) is tabulated for that alphabet, for the lines   *)
(* of the guard block and for the two paths.                               *)
(***************************************************************************)
Shebang == "#!/bin/bash"
Directive == "#SBATCH -n 1"
Comment == "# note"
Blank == ""
Code == "echo hi"
IndentedCode == "  echo hi"
Spaces == "  "
OtherShebang == "#!/bin/sh"

LineAlphabet ==
    {Shebang, OtherShebang, Directive, Comment, Blank, Spaces, Code, IndentedCode}

TemplatePath == "template.sh"
\* '{}/{}'.format(script_folder.rstrip('/'), self.name) for folder "scripts", name "job"
OutPath == "scripts/job"

\* command, for image "img.sif": five lines, each ended by '\n'
Command ==
    << "if [[ -z \"$SINGULARITY_INIT\" ]]",
       "then",
       "  singularity exec img.sif $0 $@",
       "  exit $?",
       "fi" >>

\* Longest script text the caller supplies, in segments; calls of write_script
MaxSegs == 4
MaxWrites == 2

\* _script_options_identifier: '' in Base, the scheduler's marker in a backend
OptionsIdentifier(cls) == IF cls = "Base" THEN "" ELSE "SBATCH"

\* line.strip()
Strip(seg) ==
    CASE seg = IndentedCode -> Code
      [] seg = Spaces -> ""
      [] seg = "  singularity exec img.sif $0 $@" -> "singularity exec img.sif $0 $@"
      [] seg = "  exit $?" -> "exit $?"
      [] OTHER -> seg

\* seg.startswith('#')
StartsWithHash(seg) == seg \in {Shebang, OtherShebang, Directive, Comment}

\* '#{}'.format(id) in seg, for the non-empty identifier
ContainsHashId(seg, id) == id = "SBATCH" /\ seg = Directive

\* '#{}'.format(id) in text
InText(text, id) == \E i \in 1..Len(text) : ContainsHashId(text[i], id)

\* text.startswith('#!')
StartsWithShebang(text) == text[1] \in {Shebang, OtherShebang}

\* The elif of add_command without its test of the tail
CanInsertAnywhere(rest, id) == id # ""

\* The elif of add_command: the identifier is set and '#<identifier>' is not in tail
CanInsertHere(rest, id) == id # "" /\ ~InText(rest, id)

(***************************************************************************)
(* add_command(tail, head).  ok is FALSE when tail.split('\n', 1) yields   *)
(* one piece and the unpacking raises ValueError.                          *)
(***************************************************************************)
RECURSIVE add_command(_, _, _)
add_command(tail, head, id) ==
    IF Len(tail) < 2 THEN [ok |-> FALSE, text |-> head \o tail]
    ELSE LET line == Strip(Head(tail))
             rest == Tail(tail)
         IN IF line # "" /\ ~StartsWithHash(line)
            THEN [ok |-> TRUE, text |-> head \o Command \o <<line>> \o rest]
            ELSE IF CanInsertHere(rest, id)
                 THEN [ok |-> TRUE, text |-> head \o <<line>> \o Command \o rest]
                 ELSE add_command(rest, Append(head, line), id)

\* run_script = None, the class-level value of a backend it was never assigned
\* on (a str has at least one segment)
NoScript == <<>>

\* os.path.isfile(self.run_script)
IsFile(rs, fs) == Len(rs) = 1 /\ rs[1] \in DOMAIN fs

\* os.system('cp src out'): its failure is silent; cp of a file onto itself changes nothing
Copy(fs, src, cp_ok) ==
    IF cp_ok /\ src # OutPath
    THEN [p \in DOMAIN fs \cup {OutPath} |-> IF p = OutPath THEN fs[src] ELSE fs[p]]
    ELSE fs

\* The shebang step with its test inverted
WithShebangInverted(text) == IF StartsWithShebang(text) THEN <<Shebang>> \o text ELSE text

\* The shebang step of write_script
WithShebang(text) == IF ~StartsWithShebang(text) THEN <<Shebang>> \o text ELSE text

\* out_file.write(text)
WriteFile(fs, text) ==
    [p \in DOMAIN fs \cup {OutPath} |-> IF p = OutPath THEN text ELSE fs[p]]

(***************************************************************************)
(* Base.write_script(script_folder, singularity_image) as a function of    *)
(* the backend, the filesystem and whether the cp succeeds: how the call   *)
(* ends, self.run_script and the filesystem afterwards, the text the call  *)
(* worked on and whether in_file.read() filled self.run_script.            *)
(***************************************************************************)
WriteScriptCall(cls, rs, fs, image, cp_ok) ==
    LET isfile == IsFile(rs, fs)
        files1 == IF isfile THEN Copy(fs, rs[1], cp_ok) ELSE fs
    IN IF rs = NoScript
       THEN \* os.path.isfile(None) raises
            [result |-> "TypeError", run_script |-> rs, files |-> fs, text |-> <<"">>,
             read |-> FALSE]
       ELSE IF isfile /\ OutPath \notin DOMAIN files1
       THEN \* open(out_file_name, 'r') raises
            [result |-> "IOError", run_script |-> rs, files |-> files1, text |-> <<"">>,
             read |-> FALSE]
       ELSE LET rs1 == IF isfile THEN files1[OutPath] ELSE rs
                rs2 == WithShebang(rs1)
                r == add_command(rs2, <<>>, OptionsIdentifier(cls))
            IN IF image /\ ~r.ok
               THEN \* add_command raises; self.run_script holds the text so far
                    [result |-> "ValueError", run_script |-> rs2, files |-> files1,
                     text |-> rs1, read |-> isfile]
               ELSE [result |-> "written", run_script |-> <<OutPath>>,
                     files |-> WriteFile(files1, IF image THEN r.text ELSE rs2),
                     text |-> rs1, read |-> isfile]

WriteScript(image, cp_ok) ==
    /\ ws_calls < MaxWrites
    /\ ws_calls' = ws_calls + 1
    /\ ws_image' = image
    /\ LET r == WriteScriptCall(self_cls, run_script, files, image, cp_ok) IN
          /\ ws_result' = r.result
          /\ run_script' = r.run_script
          /\ files' = r.files
          /\ ws_text' = r.text
          /\ ws_read' = r.read
    /\ UNCHANGED <<self_cls, self_dict, config, sync_result>>
    /\ UNCHANGED <<commandVars, printerVars>>

RECURSIVE SeqsUpTo(_, _)
SeqsUpTo(S, n) ==
    IF n = 0 THEN {<<>>}
    ELSE LET shorter == SeqsUpTo(S, n - 1) IN
         shorter \cup {Append(t, x) : t \in shorter, x \in S}

\* The script texts a caller supplies: every str of 1..MaxSegs segments
Texts == SeqsUpTo(LineAlphabet, MaxSegs) \ {<<>>}

EmptyFS == [p \in {} |-> <<"">>]

\* run_script was never assigned, is literal text, or names a template file
\* holding the text
InitScriptVars ==
    /\ \/ run_script = NoScript /\ files = EmptyFS
       \/ \E text \in Texts :
             \/ run_script = text /\ files = EmptyFS
             \/ run_script = <<TemplatePath>> /\ files = [p \in {TemplatePath} |-> text]
    /\ ws_result = "idle"
    /\ ws_text = <<"">>
    /\ ws_read = FALSE
    /\ ws_image = FALSE
    /\ ws_calls = 0

IdleScriptVars ==
    /\ run_script = NoScript
    /\ files = EmptyFS
    /\ ws_result = "idle"
    /\ ws_text = <<"">>
    /\ ws_read = FALSE
    /\ ws_image = FALSE
    /\ ws_calls = 0

NextScript == \E image \in BOOLEAN, cp_ok \in BOOLEAN : WriteScript(image, cp_ok)

(***************************************************************************)
(* _check_commands.  The prompt's answer is an input of the call; it is    *)
(* read only when the prompt is issued.                                    *)
(***************************************************************************)
CommandNames == {"sbatch", "squeue", "scancel"}

\* Longest _commands list
MaxCommands == 2

\* Base._check_command(command): `which command` exits with 0
CheckCommand(command, avail) == command \in avail

RECURSIVE CheckLoop(_, _, _, _, _)

\* The prompt was accepted and the loop goes on with the next command
AcceptedNoBreak(cmds, avail, answer, i, st) ==
    CheckLoop(cmds, avail, answer, i + 1, [st EXCEPT !.answer = "yes", !.test_mode = TRUE])

\* options.Main.test_mode = True; break
Accepted(cmds, avail, answer, i, st) ==
    [st EXCEPT !.result = "returned", !.answer = "yes", !.test_mode = TRUE]

\* The loop over self._commands from index i on; st is the call's record so far
CheckLoop(cmds, avail, answer, i, st) ==
    IF i > Len(cmds)
    THEN [st EXCEPT !.result = "returned"]
    ELSE LET probed == [st EXCEPT !.probed = Append(@, cmds[i])] IN
         IF CheckCommand(cmds[i], avail)
         THEN CheckLoop(cmds, avail, answer, i + 1, probed)
         ELSE LET prompted == [probed EXCEPT !.prompts = @ + 1] IN
              IF answer
              THEN Accepted(cmds, avail, answer, i, prompted)
              ELSE [prompted EXCEPT !.result = "raised", !.answer = "no"]

CheckStart ==
    [result |-> "running", probed |-> <<>>, prompts |-> 0, answer |-> "none",
     test_mode |-> FALSE]

\* Base._check_commands() as a function of the test mode at entry, the
\* required commands, the commands that resolve and the answer to the prompt
CheckCommandsCall(tm, cmds, avail, answer) ==
    IF tm
    THEN [CheckStart EXCEPT !.result = "returned", !.test_mode = tm]
    ELSE CheckLoop(cmds, avail, answer, 1, CheckStart)

CheckCommands(answer) ==
    /\ cc_entry' = test_mode
    /\ LET r == CheckCommandsCall(test_mode, commands, available, answer) IN
          /\ cc_result' = r.result
          /\ cc_probed' = r.probed
          /\ cc_prompts' = r.prompts
          /\ cc_answer' = r.answer
          /\ test_mode' = r.test_mode
    /\ UNCHANGED <<commands, available>>
    /\ UNCHANGED <<syncVars, scriptVars, printerVars>>

InitCommandVars ==
    /\ test_mode \in BOOLEAN
    /\ commands \in SeqsUpTo(CommandNames, MaxCommands)
    /\ available \in SUBSET CommandNames
    /\ cc_result = "idle"
    /\ cc_entry = FALSE
    /\ cc_probed = <<>>
    /\ cc_prompts = 0
    /\ cc_answer = "none"

IdleCommandVars ==
    /\ test_mode = FALSE
    /\ commands = <<>>
    /\ available = {}
    /\ cc_result = "idle"
    /\ cc_entry = FALSE
    /\ cc_probed = <<>>
    /\ cc_prompts = 0
    /\ cc_answer = "none"

NextCommands == \E answer \in BOOLEAN : CheckCommands(answer)

(***************************************************************************)
(* The job collection the printer reads (parent.jobs).  A job is           *)
(* [status, type, tags], tags being its string tags; its name is its       *)
(* index.  The collection keeps its indices itself; they are read here as  *)
(* derived from the jobs: _states[status], _tags[tag] (types are tags      *)
(* too) and get(tags, states).  Its list _local is kept apart from them    *)
(* and is an input of the printer wherever the printer reads it.           *)
(***************************************************************************)
Statuses == {"RUNNING", "SUCCESS", "FAILED", "CANCELLED"}
Types == {"LOCAL", "BATCH"}
TagNames == {"A", "all"}
\* Most jobs in the collection
MaxJobs == 2

JobRecords == [status : Statuses, type : Types, tags : SUBSET TagNames]

\* len(jobs._states[status])
States(js, status) == {i \in 1..Len(js) : js[i].status = status}

\* The keys of jobs._tags: the string tags in use and the types in use
TagKeys(js) ==
    UNION {js[i].tags : i \in 1..Len(js)} \cup {js[i].type : i \in 1..Len(js)}

\* jobs._tags[tag]
Tagged(js, tag) == {i \in 1..Len(js) : tag \in js[i].tags \/ js[i].type = tag}

\* jobs.get(tags = tags, states = states)
Get(js, tgs, states) ==
    {i \in 1..Len(js) :
        /\ (js[i].tags \cap tgs # {} \/ js[i].type \in tgs)
        /\ js[i].status \in states}

\* len(jobs._local) as the printer may find it: the list holds names of jobs of
\* the collection; which of them is not told by the jobs' statuses and types
LocalLens(js) == 0..Len(js)

\* isinstance(tag, str): the types are enum members
IsStr(tag) == tag \notin Types

(***************************************************************************)
(* Printer                                                                 *)
(***************************************************************************)
\* _setup_bars: self._tags
TrackedTags(js) == {tag \in TagKeys(js) : IsStr(tag)}

\* _setup_bars: bars['all'] is made first and bars[tag] for every tracked tag
\* after it, so a tag named 'all' takes the place of the bar for all jobs; a
\* tqdm bar starts at n = 0
SetupBars(js) ==
    [b \in {"all"} \cup TrackedTags(js) |->
        [n |-> 0,
         total |-> IF b \in TrackedTags(js) THEN Cardinality(Tagged(js, b)) ELSE Len(js),
         closed |-> FALSE]]

\* tqdm.update(n): self.n += n
TqdmUpdate(bar, n) == [bar EXCEPT !.n = @ + n]

\* start, bar mode: the bars of _setup_bars brought up to speed
StartBars(js) ==
    LET fresh == SetupBars(js) IN
    [b \in DOMAIN fresh |->
        TqdmUpdate(fresh[b],
                   IF b = "all" THEN Cardinality(States(js, "SUCCESS"))
                   ELSE Cardinality(Get(js, {b}, {"SUCCESS"})))]

\* _get_updates with the tags of the collection as they are now
UpdateTagsLive(js, tgs) == TrackedTags(js)

\* _get_updates: the tags it makes entries for (self._tags)
UpdateTags(js, tgs) == tgs

\* _get_updates()[bucket]: the entry for 'all' is made first and the entry of
\* every tracked tag after it
GetUpdates(js, tgs, b) ==
    IF b \in UpdateTags(js, tgs)
    THEN [SUCCESS |-> Cardinality(Get(js, {b}, {"SUCCESS"})),
          FAILED |-> Cardinality(Get(js, {b}, {"FAILED"}))]
    ELSE [SUCCESS |-> Cardinality(States(js, "SUCCESS")),
          FAILED |-> Cardinality(States(js, "FAILED"))]

\* The keys of _get_updates()
UpdateKeys(js, tgs) == {"all"} \cup UpdateTags(js, tgs)

\* _update_bars, one bucket (the postfix it sets is GetUpdates of that moment)
UpdateBar(bar, upd) ==
    LET n_jobs == upd.SUCCESS + upd.FAILED
        n_update_jobs == n_jobs - bar.n
    IN IF n_update_jobs > 0 THEN TqdmUpdate(bar, n_update_jobs) ELSE bar

\* _update_bars: self._bars[tag] for every key of the updates; a key without
\* bar ends the call in KeyError
UpdateBars(bs, js, tgs) ==
    [bars |-> [b \in DOMAIN bs |->
                  IF b \in UpdateKeys(js, tgs)
                  THEN UpdateBar(bs[b], GetUpdates(js, tgs, b))
                  ELSE bs[b]],
     raised |-> IF UpdateKeys(js, tgs) \subseteq DOMAIN bs THEN "no" ELSE "KeyError"]

\* n_batch of _get_print_string
RunningBatch(n_running, n_local) == n_running - n_local

\* The numbers _get_print_string puts in the status line; n_local is
\* len(jobs._local), read at verbosity above 1 only
GetPrintString(js, verb, n_local) ==
    LET n_running == Cardinality(States(js, "RUNNING"))
    IN [detailed |-> verb > 1,
        n_batch |-> IF verb > 1 THEN RunningBatch(n_running, n_local) ELSE 0,
        n_local |-> IF verb > 1 THEN n_local ELSE 0,
        n_running |-> IF verb > 1 THEN n_running ELSE 0,
        n_success |-> Cardinality(States(js, "SUCCESS")),
        n_failed |-> Cardinality(States(js, "FAILED")),
        n_all |-> Len(js)]

\* _print_simple: the status line and whether the manual-mode hint follows it
PrintSimple(js, verb, manual, n_local) ==
    [string |-> GetPrintString(js, verb, n_local), hint |-> manual]

\* The values len(jobs._local) may have where a call reads it: _get_print_string
\* reads it in line mode at verbosity above 1 and nowhere else
LocalReads(mode, verb, js) == IF ~mode /\ verb > 1 THEN LocalLens(js) ELSE {0}

\* The status lines a call of start(), update() or stop() writes
Lines(mode, js, verb, manual, n_local) ==
    IF mode THEN <<>> ELSE <<PrintSimple(js, verb, manual, n_local)>>

\* The summary buckets a job counts for, with the failure test applied to every job
SummaryKeysNoElif(status) ==
    (IF status = "SUCCESS" THEN {"success"} ELSE {})
        \cup (IF status # "RUNNING" THEN {"fail"} ELSE {})

\* _get_summary_string: the summary buckets a job of this status counts for
SummaryKeys(status) ==
    IF status = "SUCCESS" THEN {"success"}
    ELSE IF status = "FAILED" \/ status = "CANCELLED" THEN {"fail"}
    ELSE {}

\* time.time() - self._time in stop(): 0.0 when the clock reads the same as it did
\* in start(), any other number otherwise
Elapsed == {"zero", "elapsed"}

\* bool(time_spent): None and 0.0 are false
TimeIsTrue(time_spent) == time_spent \notin {"None", "zero"}

\* _get_summary_string(time_spent): the rows it prints, each [batch, local, all],
\* the names of the failed jobs it lists (a job's name is its index; listed at
\* verbosity above 1 when there are any) and the time its last line shows
\* ("None": no such line, printed only for a time that is true)
GetSummary(js, verb, time_spent) ==
    LET n_jobs == Len(js)
        n_local == Cardinality(Tagged(js, "LOCAL"))
        count(key, local) ==
            Cardinality({i \in 1..Len(js) :
                           /\ key \in SummaryKeys(js[i].status)
                           /\ (js[i].type = "LOCAL") = local})
        row(batch, local) == [batch |-> batch, local |-> local, all |-> batch + local]
        jobs_failed == {i \in 1..Len(js) : "fail" \in SummaryKeys(js[i].status)}
    IN [keys |-> IF jobs_failed = {} THEN {"all", "success"} ELSE {"all", "success", "fail"},
        all |-> row(n_jobs - n_local, n_local),
        success |-> row(count("success", FALSE), count("success", TRUE)),
        fail |-> row(count("fail", FALSE), count("fail", TRUE)),
        failed_jobs |-> IF verb > 1
                        THEN SelectSeq([i \in 1..Len(js) |-> i], LAMBDA i : i \in jobs_failed)
                        ELSE <<>>,
        time |-> IF TimeIsTrue(time_spent) THEN time_spent ELSE "None"]

EmptyBars == [b \in {} |-> [n |-> 0, total |-> 0, closed |-> FALSE]]

\* Printer.update(): the bars after it, how it ended and what it wrote
UpdateCall(mode, bs, js, tgs) ==
    IF mode
    THEN LET r == UpdateBars(bs, js, tgs) IN
         [bars |-> r.bars, raised |-> r.raised,
          out |-> IF r.raised = "no" THEN <<"bars">> ELSE <<>>]
    ELSE [bars |-> bs, raised |-> "no", out |-> <<"line">>]

\* stop() with the summary printed before the bars are closed
StopEventsSummaryFirst(mode) ==
    <<"elapsed", "summary">> \o (IF mode THEN <<"close">> ELSE <<>>) \o <<"newline">>

\* What stop() does after its update(): self._time becomes the elapsed time, the
\* bars are closed (bar mode), '\n' is written, print_summary() is called
StopEvents(mode) ==
    <<"elapsed">> \o (IF mode THEN <<"close">> ELSE <<>>) \o <<"newline", "summary">>

\* bar.close() for every bar
CloseBars(bs) == [b \in DOMAIN bs |-> [bs[b] EXCEPT !.closed = TRUE]]

\* Printer.print_summary(): the summary of the jobs as they are, with self._time
\* as it is, written to the console; the owner may call it at any time
PrintSummary ==
    /\ p_op' = "print_summary"
    /\ p_raised' = "no"
    /\ p_out' = <<"summary">>
    /\ p_line' = <<>>
    /\ p_summary' = <<GetSummary(jobs, verbosity, time)>>
    /\ UNCHANGED <<jobs, bar_mode, verbosity, manual_mode, bars, tags, time, phase, n_start>>
    /\ UNCHANGED <<syncVars, scriptVars, commandVars>>

\* Printer.set_manual()
SetManual ==
    /\ phase = "new"
    /\ ~manual_mode
    /\ manual_mode' = TRUE
    /\ p_op' = "set_manual"
    /\ p_raised' = "no"
    /\ p_out' = <<>>
    /\ p_line' = <<>>
    /\ p_summary' = <<>>
    /\ UNCHANGED <<jobs, bar_mode, verbosity, bars, tags, time, phase, n_start>>
    /\ UNCHANGED <<syncVars, scriptVars, commandVars>>

\* Printer.start(); n_local is len(jobs._local) as the call finds it
Start(n_local) ==
    /\ phase = "new"
    /\ phase' = "started"
    /\ p_op' = "start"
    /\ time' = "clock"
    /\ bars' = IF bar_mode THEN StartBars(jobs) ELSE bars
    /\ tags' = IF bar_mode THEN TrackedTags(jobs) ELSE tags
    /\ n_start' = IF bar_mode THEN Len(jobs) ELSE n_start
    /\ p_raised' = "no"
    /\ p_out' = <<"clock", IF bar_mode THEN "bars" ELSE "line">>
    /\ p_line' = Lines(bar_mode, jobs, verbosity, manual_mode, n_local)
    /\ p_summary' = <<>>
    /\ UNCHANGED <<jobs, bar_mode, verbosity, manual_mode>>
    /\ UNCHANGED <<syncVars, scriptVars, commandVars>>

\* Printer.update(); n_local is len(jobs._local) as the call finds it
Update(n_local) ==
    /\ phase = "started"
    /\ p_op' = "update"
    /\ LET u == UpdateCall(bar_mode, bars, jobs, tags) IN
          /\ bars' = u.bars
          /\ p_raised' = u.raised
          /\ p_out' = u.out
    /\ p_line' = Lines(bar_mode, jobs, verbosity, manual_mode, n_local)
    /\ p_summary' = <<>>
    /\ UNCHANGED <<jobs, bar_mode, verbosity, manual_mode, tags, time, phase, n_start>>
    /\ UNCHANGED <<syncVars, scriptVars, commandVars>>

\* Printer.stop(): the final update, then the steps of StopEvents, the last of
\* them print_summary() with the elapsed time; an update that raises ends the
\* call there.  n_local is len(jobs._local) as the call finds it, elapsed what
\* the two clock readings give
Stop(n_local, elapsed) ==
    /\ phase = "started"
    /\ p_op' = "stop"
    /\ LET u == UpdateCall(bar_mode, bars, jobs, tags) IN
          /\ p_raised' = u.raised
          /\ IF u.raised = "no"
             THEN /\ phase' = "stopped"
                  /\ time' = elapsed
                  /\ bars' = IF bar_mode THEN CloseBars(u.bars) ELSE u.bars
                  /\ p_out' = u.out \o StopEvents(bar_mode)
                  /\ p_line' = Lines(bar_mode, jobs, verbosity, manual_mode, n_local)
                  /\ p_summary' = <<GetSummary(jobs, verbosity, elapsed)>>
             ELSE /\ phase' = phase
                  /\ time' = time
                  /\ bars' = u.bars
                  /\ p_out' = u.out
                  /\ p_line' = <<>>
                  /\ p_summary' = <<>>
    /\ UNCHANGED <<jobs, bar_mode, verbosity, manual_mode, tags, n_start>>
    /\ UNCHANGED <<syncVars, scriptVars, commandVars>>

\* The owner of the collection adds a job
AddJob(job) ==
    /\ phase # "stopped"
    /\ Len(jobs) < MaxJobs
    /\ jobs' = Append(jobs, job)
    /\ p_op' = "jobs"
    /\ p_raised' = "no"
    /\ p_out' = <<>>
    /\ p_line' = <<>>
    /\ p_summary' = <<>>
    /\ UNCHANGED <<bar_mode, verbosity, manual_mode, bars, tags, time, phase, n_start>>
    /\ UNCHANGED <<syncVars, scriptVars, commandVars>>

\* A job's status changes between polls (forwards, or back when it is retried)
SetStatus(i, status) ==
    /\ phase # "stopped"
    /\ jobs[i].status # status
    /\ jobs' = [jobs EXCEPT ![i].status = status]
    /\ p_op' = "jobs"
    /\ p_raised' = "no"
    /\ p_out' = <<>>
    /\ p_line' = <<>>
    /\ p_summary' = <<>>
    /\ UNCHANGED <<bar_mode, verbosity, manual_mode, bars, tags, time, phase, n_start>>
    /\ UNCHANGED <<syncVars, scriptVars, commandVars>>

InitPrinterVars ==
    /\ jobs = <<>>
    /\ bar_mode \in BOOLEAN
    /\ verbosity \in {1, 2}
    /\ manual_mode = FALSE
    /\ bars = EmptyBars
    /\ tags = {}
    /\ time = "None"
    /\ phase = "new"
    /\ p_op = "init"
    /\ p_raised = "no"
    /\ p_out = <<>>
    /\ p_line = <<>>
    /\ p_summary = <<>>
    /\ n_start = 0

IdlePrinterVars ==
    /\ jobs = <<>>
    /\ bar_mode = FALSE
    /\ verbosity = 1
    /\ manual_mode = FALSE
    /\ bars = EmptyBars
    /\ tags = {}
    /\ time = "None"
    /\ phase = "new"
    /\ p_op = "init"
    /\ p_raised = "no"
    /\ p_out = <<>>
    /\ p_line = <<>>
    /\ p_summary = <<>>
    /\ n_start = 0

NextPrinter ==
    \/ SetManual
    \/ \E n_local \in LocalReads(bar_mode, verbosity, jobs) : Start(n_local)
    \/ \E n_local \in LocalReads(bar_mode, verbosity, jobs) : Update(n_local)
    \/ \E n_local \in LocalReads(bar_mode, verbosity, jobs) :
          \E elapsed \in Elapsed : Stop(n_local, elapsed)
    \/ PrintSummary
    \/ \E job \in JobRecords : AddJob(job)
    \/ \E i \in 1..Len(jobs) : \E status \in Statuses : SetStatus(i, status)

(***************************************************************************)
(* Specifications: one per component, the other components at rest.        *)
(***************************************************************************)
InitSync == InitSyncVars /\ IdleScriptVars /\ IdleCommandVars /\ IdlePrinterVars
SpecSync == InitSync /\ [][NextSync]_vars

InitScript ==
    /\ self_cls \in Classes /\ self_dict = <<>> /\ config = NoneConfig /\ sync_result = "idle"
    /\ InitScriptVars /\ IdleCommandVars /\ IdlePrinterVars
SpecScript == InitScript /\ [][NextScript]_vars

InitCommands == IdleSyncVars /\ IdleScriptVars /\ InitCommandVars /\ IdlePrinterVars
SpecCommands == InitCommands /\ [][NextCommands]_vars

InitPrinter == IdleSyncVars /\ IdleScriptVars /\ IdleCommandVars /\ InitPrinterVars
SpecPrinter == InitPrinter /\ [][NextPrinter]_vars

(***************************************************************************)
(* Base.sync                                                               *)
(***************************************************************************)

\* C1 (as claimed): across every sync call and for every non-private field k, a
\* truthy value of k is kept, and k changes only from a falsy value to config's
\* value of k and only when config is of the receiver's own class.
C1_SyncFillsOnlyFromSameKind ==
    [][sync_result' # "idle" =>
         \A k \in PublicKeys :
            /\ Truthy(Field(self_dict, k)) => Field(self_dict', k) = Field(self_dict, k)
            /\ Field(self_dict', k) # Field(self_dict, k) =>
                  /\ ~Truthy(Field(self_dict, k))
                  /\ Field(self_dict', k) = Field(config.dict, k)
                  /\ config.cls = self_cls]_vars

\* C2 (as claimed): a sync call whose argument is of another class than the
\* receiver, extending it or not, changes nothing on the receiver and reports
\* the mismatch.
C2_SyncMismatchLeavesReceiver ==
    [][(sync_result' # "idle" /\ config # NoneConfig /\ config.cls # self_cls) =>
         (self_dict' = self_dict /\ sync_result' = "mismatch")]_vars

\* C3 (as claimed): a sync call whose argument is of the receiver's class ends
\* without error and leaves every non-private field k, assigned or not on either
\* object, at `receiver.k or other.k`.
C3_SyncMergesEveryPublicField ==
    [][(sync_result' # "idle" /\ config.cls = self_cls) =>
         /\ sync_result' = "done"
         /\ \A k \in PublicKeys :
               Field(self_dict', k) = PyOr(Field(self_dict, k), Field(config.dict, k))]_vars

\* C4: sync is idempotent: in the state a sync call leaves, the same call again
\* ends the same way and leaves the receiver as it is.
C4_SyncIdempotent ==
    sync_result # "idle" =>
        SyncCall(self_cls, self_dict, config) = [dict |-> self_dict, result |-> sync_result]

\* C4 witness: a sync call filled a field from config and kept another one
C4_Witness ==
    /\ sync_result = "done"
    /\ Field(self_dict, "name") = "'b'"
    /\ Field(self_dict, "run_script") = "'a'"
    /\ Field(config.dict, "run_script") = "'b'"

(***************************************************************************)
(* Base.write_script and the guard injection                               *)
(***************************************************************************)

\* A line that is not blank and not a comment, as add_command tests it
IsCodeLine(seg) == Strip(seg) # "" /\ ~StartsWithHash(Strip(seg))

\* A directive line: a comment line carrying the options identifier
IsDirectiveLine(seg, id) == StartsWithHash(Strip(seg)) /\ ContainsHashId(seg, id)

\* Index of the first line of text that is code, Len(text) + 1 when there is none
FirstCode(text) ==
    IF \E i \in 1..Len(text) : IsCodeLine(text[i])
    THEN CHOOSE i \in 1..Len(text) :
            IsCodeLine(text[i]) /\ \A j \in 1..(i - 1) : ~IsCodeLine(text[j])
    ELSE Len(text) + 1

\* The guard block stands in text from line p on
GuardAt(text, p) ==
    /\ p >= 1
    /\ p + Len(Command) - 1 <= Len(text)
    /\ SubSeq(text, p, p + Len(Command) - 1) = Command

GuardStarts(text) == {p \in 1..Len(text) : GuardAt(text, p)}

\* C5 (as claimed): in the output of every write_script call given an image the
\* guard block occurs exactly once, after every directive line of the script and
\* before every line of the script that is not blank and not a comment; with no
\* directive line and code as the script's first line it follows the shebang line.
C5_GuardAfterLastDirective ==
    (ws_result = "written" /\ ws_image) =>
        LET out == files[OutPath]
            id == OptionsIdentifier(self_cls)
        IN /\ Cardinality(GuardStarts(out)) = 1
           /\ \A p \in GuardStarts(out) :
                 /\ \A i \in 1..Len(out) : IsDirectiveLine(out[i], id) => i < p
                 /\ \A i \in 1..Len(out) :
                       (IsCodeLine(out[i]) /\ i \notin p..(p + Len(Command) - 1)) => i > p
           /\ ((\A i \in 1..Len(ws_text) : ~IsDirectiveLine(ws_text[i], id))
                  /\ IsCodeLine(ws_text[1])) => GuardAt(out, 2)

\* C5 (amended): the output of a write_script call given an image holds one guard
\* block more than the script text did; the block starts at the output's first
\* line that is not blank and not a comment, at or above the place of the
\* script's first such line, and below every directive line that stands above
\* that line; with no directive line and code as the script's first line it
\* follows the shebang line.
C5_GuardPlacement ==
    (ws_result = "written" /\ ws_image) =>
        LET out == files[OutPath]
            id == OptionsIdentifier(self_cls)
            script == WithShebang(ws_text)
            fc == FirstCode(script)
            p == FirstCode(out)
        IN /\ Cardinality(GuardStarts(out)) = Cardinality(GuardStarts(ws_text)) + 1
           /\ GuardAt(out, p)
           /\ p <= fc
           /\ fc <= Len(script) => Strip(out[fc + Len(Command)]) = Strip(script[fc])
           /\ \A i \in 1..(fc - 1) : IsDirectiveLine(script[i], id) => i < p
           /\ ((\A i \in 1..Len(ws_text) : ~IsDirectiveLine(ws_text[i], id))
                  /\ IsCodeLine(ws_text[1])) => p = 2

\* C5 witness: two directive lines with a blank line between them, then code
C5_Witness ==
    /\ ws_result = "written"
    /\ ws_image
    /\ ws_text = <<Directive, Blank, Directive, Code>>
    /\ GuardAt(files[OutPath], 5)

\* C6: the text a completed write_script call wrote begins with a shebang line,
\* the script's own when it has one and else the default one, prepended exactly
\* then; nothing but that line and the guard block is added.
C6_OutputStartsWithShebang ==
    ws_result = "written" =>
        LET out == files[OutPath]
            added == IF ws_image THEN Len(Command) ELSE 0
        IN /\ StartsWithShebang(out)
           /\ StartsWithShebang(ws_text) =>
                 (out[1] = ws_text[1] /\ Len(out) = Len(ws_text) + added)
           /\ ~StartsWithShebang(ws_text) =>
                 (out[1] = Shebang /\ Len(out) = Len(ws_text) + 1 + added)
           /\ \A p \in GuardStarts(out) : p > 1

\* C6 witness: a template without shebang line was inlined and a guard injected
C6_Witness ==
    /\ ws_result = "written"
    /\ ws_image
    /\ TemplatePath \in DOMAIN files
    /\ ws_text = files[TemplatePath]
    /\ ~StartsWithShebang(ws_text)
    /\ Len(files[OutPath]) = Len(ws_text) + 1 + Len(Command)

\* text without the Len(Command) lines that stand in it from line p on
RemoveGuard(text, p) ==
    SubSeq(text, 1, p - 1) \o SubSeq(text, p + Len(Command), Len(text))

\* C12 (as claimed): the injection only adds the guard block: taking the block
\* out of the output of a write_script call given an image leaves exactly the
\* text the injection was handed (the script after the shebang step), every
\* line with its leading and trailing whitespace.
C12_InjectionOnlyAddsGuard ==
    (ws_result = "written" /\ ws_image) =>
        \E p \in GuardStarts(files[OutPath]) :
            RemoveGuard(files[OutPath], p) = WithShebang(ws_text)

\* C13 (as claimed): for every script text and every options identifier the scan
\* of a write_script call given an image ends by inserting the guard block: the
\* call, when it has a script text to scan, writes its output, and the output
\* holds the block.
C13_ScanAlwaysInserts ==
    (ws_image /\ ws_result \notin {"idle", "IOError", "TypeError"}) =>
        /\ ws_result = "written"
        /\ GuardStarts(files[OutPath]) # {}

\* C14 (as claimed): once run_script holds literal text or the path of the
\* written output, no later write_script call reads a file's contents into
\* run_script.
C14_InlineOnlyOnce ==
    [][(ws_calls' = ws_calls + 1 /\ run_script # <<TemplatePath>>) => ~ws_read']_vars

\* C17 (as claimed): a write_script call that follows a completed one, given an
\* image exactly when that one was, completes and leaves the output file's
\* content as it was.
C17_WriteScriptIdempotent ==
    [][(ws_calls' = ws_calls + 1 /\ ws_result = "written" /\ ws_image' = ws_image) =>
          /\ ws_result' = "written"
          /\ files'[OutPath] = files[OutPath]]_vars

(***************************************************************************)
(* Printer                                                                 *)
(***************************************************************************)

Max(a, b) == IF a >= b THEN a ELSE b

\* The SUCCESS + FAILED count of the bucket of all jobs
FinishedAll(js) == Cardinality(States(js, "SUCCESS") \cup States(js, "FAILED"))

\* The SUCCESS + FAILED count of the bucket of a string tag
FinishedTag(js, tag) ==
    Cardinality({i \in 1..Len(js) : tag \in js[i].tags /\ js[i].status \in {"SUCCESS", "FAILED"}})

\* C7 (as claimed): in bar mode no bar's position ever decreases from start()
\* on, and the update of update() and of stop() leaves the bar for 'all' at the
\* larger of its previous position and the SUCCESS + FAILED count of all jobs,
\* and the bar of every tracked tag at the larger of its previous position and
\* the SUCCESS + FAILED count of the jobs with that tag.
C7_BarsNeverDecrease ==
    [][\A b \in DOMAIN bars :
          /\ b \in DOMAIN bars'
          /\ bars'[b].n >= bars[b].n
          /\ p_op' \in {"update", "stop"} =>
                /\ b = "all" => bars'[b].n = Max(bars[b].n, FinishedAll(jobs))
                /\ b \in tags => bars'[b].n = Max(bars[b].n, FinishedTag(jobs, b))]_vars

\* C8 (as claimed): every count the printer shows is non-negative: the bar
\* positions, the success/failed counts of the bars' postfix, every number of
\* the status line (the batch/local/all running counts of verbosity above 1
\* included) and every number of the summary; and the counts shown for 'all' do
\* not exceed the number of jobs.
C8_CountsInRange ==
    /\ \A b \in DOMAIN bars : bars[b].n >= 0
    /\ "all" \in DOMAIN bars => bars["all"].n <= Len(jobs)
    /\ (bar_mode /\ p_op \in {"update", "stop"}) =>
          /\ \A b \in DOMAIN bars :
                GetUpdates(jobs, tags, b).SUCCESS >= 0 /\ GetUpdates(jobs, tags, b).FAILED >= 0
          /\ GetUpdates(jobs, tags, "all").SUCCESS + GetUpdates(jobs, tags, "all").FAILED
                <= Len(jobs)
    /\ \A k \in 1..Len(p_line) :
          LET line == p_line[k].string IN
          /\ line.n_batch >= 0 /\ line.n_local >= 0 /\ line.n_running >= 0
          /\ line.n_success >= 0 /\ line.n_failed >= 0 /\ line.n_all >= 0
          /\ line.n_running <= line.n_all
          /\ line.n_success + line.n_failed <= line.n_all
    /\ \A k \in 1..Len(p_summary) :
          LET sm == p_summary[k]
              rows == [all |-> sm.all, success |-> sm.success, fail |-> sm.fail]
          IN /\ \A key \in sm.keys :
                   rows[key].batch >= 0 /\ rows[key].local >= 0 /\ rows[key].all >= 0
             /\ sm.all.all <= Len(jobs)

\* C9: in every summary the printer prints, the final one of stop() and those
\* of print_summary(), success total + fail total is at most the number of jobs,
\* every printed row has local + batch = its total, the total of the first row
\* is the number of jobs, and a job counts as failed when its status is FAILED or
\* CANCELLED.
C9_SummaryAddsUp ==
    \A k \in 1..Len(p_summary) :
        LET sm == p_summary[k]
            rows == [all |-> sm.all, success |-> sm.success, fail |-> sm.fail]
        IN /\ sm.success.all + sm.fail.all <= Len(jobs)
           /\ \A key \in sm.keys : rows[key].local + rows[key].batch = rows[key].all
           /\ sm.all.all = Len(jobs)
           /\ sm.success.all = Cardinality(States(jobs, "SUCCESS"))
           /\ sm.fail.all = Cardinality(States(jobs, "FAILED") \cup States(jobs, "CANCELLED"))

\* C9 witness: a summary over a successful local job and a cancelled batch job
C9_Witness ==
    /\ p_op = "stop"
    /\ Len(p_summary) = 1
    /\ p_summary[1].keys = {"all", "success", "fail"}
    /\ p_summary[1].success.local = 1
    /\ p_summary[1].fail.batch = 1
    /\ \E i \in 1..Len(jobs) : jobs[i].status = "CANCELLED"

\* C11: from start() on no printer call raises, in bar mode and in line mode,
\* whatever the collection holds (nothing included), whatever is added to it and
\* however the statuses change between the calls: every update() returns after
\* writing its bars or its line, and stop() returns with the printer stopped and
\* the summary printed.
C11_NoRaiseAfterStart ==
    p_op \in {"start", "update", "stop"} =>
        /\ p_raised = "no"
        /\ p_out # <<>>
        /\ p_op = "stop" => (phase = "stopped" /\ Len(p_summary) = 1)

\* C11 witness: stop() returned in bar mode over a collection that grew after
\* start() and whose SUCCESS + FAILED count fell below a bar's position
C11_Witness ==
    /\ p_op = "stop"
    /\ bar_mode
    /\ p_raised = "no"
    /\ Len(jobs) > n_start
    /\ bars["all"].n > FinishedAll(jobs)

\* C15: stop() does, in this order: one update(), the elapsed time, the closing
\* of every bar (bar mode only), the newline, the summary; the summary is printed
\* once, is the last thing written and is the summary of the jobs as they are
\* when stop() runs.
C15_StopOrder ==
    p_op = "stop" =>
        /\ p_out = <<IF bar_mode THEN "bars" ELSE "line", "elapsed">>
                      \o (IF bar_mode THEN <<"close">> ELSE <<>>)
                      \o <<"newline", "summary">>
        /\ time \in Elapsed
        /\ p_summary = <<GetSummary(jobs, verbosity, time)>>
        /\ Len(p_line) = (IF bar_mode THEN 0 ELSE 1)
        /\ bar_mode => \A b \in DOMAIN bars : bars[b].closed

\* C15 witness: stop() in bar mode closed two bars and printed a summary that
\* counts a failed job and, the elapsed time being 0.0, has no time line
C15_Witness ==
    /\ p_op = "stop"
    /\ bar_mode
    /\ Cardinality(DOMAIN bars) = 2
    /\ \A b \in DOMAIN bars : bars[b].closed
    /\ Len(p_summary) = 1
    /\ p_summary[1].fail.all = 1
    /\ time = "zero"
    /\ p_summary[1].time = "None"
    /\ p_out[Len(p_out)] = "summary"

\* The string tags the jobs carry
StringTags(js) == UNION {js[i].tags : i \in 1..Len(js)}

\* C16 (as claimed): right after start() in bar mode there is a bar for 'all'
\* whose total is the number of jobs and a bar for every string tag whose total
\* is the number of jobs with that tag, and no other bar; every bar stands at the
\* number of SUCCESS jobs of its bucket.
C16_BarsAfterStart ==
    (p_op = "start" /\ bar_mode) =>
        /\ DOMAIN bars = {"all"} \cup StringTags(jobs)
        /\ bars["all"].total = Len(jobs)
        /\ bars["all"].n = Cardinality(States(jobs, "SUCCESS"))
        /\ \A tag \in StringTags(jobs) :
              /\ bars[tag].total = Cardinality(Tagged(jobs, tag))
              /\ bars[tag].n = Cardinality(Get(jobs, {tag}, {"SUCCESS"}))

\* C18 (as claimed): in bar mode, while no job was added since start(), no bar
\* stands above its total, and after an update() or stop() that finds every job
\* in SUCCESS or FAILED the bar for 'all' stands at its total and the bar of
\* every tag at the number of jobs with that tag.
C18_BarsReachTotal ==
    (bar_mode /\ phase # "new" /\ Len(jobs) = n_start) =>
        /\ \A b \in DOMAIN bars : bars[b].n <= bars[b].total
        /\ (p_op \in {"update", "stop"}
              /\ \A i \in 1..Len(jobs) : jobs[i].status \in {"SUCCESS", "FAILED"}) =>
                 /\ bars["all"].n = bars["all"].total
                 /\ \A tag \in StringTags(jobs) :
                       bars[tag].n = Cardinality(Tagged(jobs, tag))

(***************************************************************************)
(* Base._check_commands                                                    *)
(***************************************************************************)

\* The indices of the required commands that do not resolve
Unresolved == {i \in 1..Len(commands) : ~CheckCommand(commands[i], available)}

\* C10: a _check_commands call entered in test mode probes nothing and prompts
\* nobody; otherwise it probes the commands in list order up to the first that
\* does not resolve and prompts once there: accepting sets test mode and the call
\* returns, declining raises with test mode off; with every command resolving
\* there is no prompt and test mode stays off.  A call that returns leaves test
\* mode on or found every command.
C10_CheckCommands ==
    cc_result # "idle" =>
        /\ cc_entry =>
              /\ cc_probed = <<>> /\ cc_prompts = 0 /\ cc_answer = "none"
              /\ cc_result = "returned" /\ test_mode
        /\ (~cc_entry /\ Unresolved = {}) =>
              /\ cc_probed = commands /\ cc_prompts = 0 /\ cc_answer = "none"
              /\ cc_result = "returned" /\ ~test_mode
        /\ (~cc_entry /\ Unresolved # {}) =>
              LET first == CHOOSE i \in Unresolved : \A j \in Unresolved : i <= j IN
              /\ cc_probed = SubSeq(commands, 1, first)
              /\ cc_prompts = 1
              /\ \/ cc_answer = "yes" /\ cc_result = "returned" /\ test_mode
                 \/ cc_answer = "no" /\ cc_result = "raised" /\ ~test_mode
        /\ cc_result = "returned" => (test_mode \/ Unresolved = {})

\* C10 witness: the second command did not resolve and the prompt was accepted
C10_Witness ==
    /\ cc_result = "returned"
    /\ ~cc_entry
    /\ Len(cc_probed) = 2
    /\ cc_prompts = 1
    /\ test_mode

============================================================================
